---- MODULE Spec2Model ----
(***************************************************************************)
(* NusaIsochrone: the isochrone engine of BetterSpaceTools.                *)
(*                                                                         *)
(*   services/overpassService.ts   fetchRoadNetwork  (graph builder)       *)
(*   services/isochroneService.ts  calculateDijkstra, generateHull         *)
(*   App.tsx                       calculateIsochrone and the UI handlers  *)
(*                                                                         *)
(* Times are integer seconds.  A JavaScript Map is a sequence of entries   *)
(* in insertion order (nodes) or a function over its keys (adjacency,      *)
(* distances).                                                             *)
(***************************************************************************)
EXTENDS Integers, Sequences, FiniteSets, TLC

VARIABLES
    \* ---- calculateDijkstra (one call, stepped one loop iteration at a time)
    graph,            \* GraphData: [nodes : Seq(Node), adjacency : id -> Seq(Edge)]
    startLat,         \* argument startLat
    startLng,         \* argument startLng
    maxTimeSeconds,   \* argument maxTimeSeconds
    pq,               \* the array pq of [d, id] pairs
    distances,        \* the Map distances
    reachableNodes,   \* the array reachableNodes
    popTimes,         \* history: the d with which each entry of reachableNodes was popped
    pops,             \* history: number of pq.shift() calls so far
    dpc,              \* "loop" while the while-loop runs, "done" after the return
    \* ---- fetchRoadNetwork after the response arrived (one build)
    elements,         \* data.elements
    buildMode,        \* argument mode
    built,            \* the GraphData returned
    bpc,              \* "parse" before the two forEach passes, "built" after the return
    \* ---- generateHull (one call)
    hullInput,        \* argument nodes
    hullRun,          \* the run: what turf.concave and turf.convex did, and the value returned
    hpc,              \* "call" before the call, "done" after the return
    \* ---- App
    params,           \* useState params
    activePoi,        \* useState activePoi: <<>> for null, or <<lat, lng>>
    isLoading,        \* useState isLoading
    history,          \* useState history
    showAiAnalysis,   \* useState showAiAnalysis
    aiAnalysisContent,\* useState aiAnalysisContent: the call whose text is shown, 0 for ""
    calls             \* the invocations of calculateIsochrone, in order of invocation

dvars == <<graph, startLat, startLng, maxTimeSeconds, pq, distances,
           reachableNodes, popTimes, pops, dpc>>

bvars == <<elements, buildMode, built, bpc>>

hvars == <<hullInput, hullRun, hpc>>

avars == <<params, activePoi, isLoading, history, showAiAnalysis, aiAnalysisContent,
           calls>>

vars == <<dvars, bvars, hvars, avars>>

Null == "null"

\* the entry of a weight table that stands for "no edge"
NoEdge == 0 - 1

(***************************************************************************)
(* Bounds of the model.                                                    *)
(***************************************************************************)
MaxWeight == 2      \* edge weights of the enumerated graphs are 0..MaxWeight
MaxBudget == 3      \* time budgets of the enumerated searches are 0..MaxBudget
MaxElements == 3    \* the enumerated element lists hold at most MaxElements elements
MaxHullNodes == 3   \* the enumerated hull inputs hold at most MaxHullNodes nodes
MaxCalls == 2       \* calculateIsochrone is invoked at most MaxCalls times
MaxPops == 6        \* the loop of a search runs at most MaxPops iterations

\* node ids of the enumerated graphs
GenIds == <<"n0", "n1", "n2">>
\* node ids of the line graph n0-n1-n2-n3-n4
LineIds == <<"n0", "n1", "n2", "n3", "n4">>

Range(s) == {s[i] : i \in DOMAIN s}

Min(a, b) == IF a <= b THEN a ELSE b

(***************************************************************************)
(* types.ts                                                                *)
(***************************************************************************)
Node(id, lat, lon) == [id |-> id, lat |-> lat, lon |-> lon]

Edge(source, target, weight) == [source |-> source, target |-> target, weight |-> weight]

GraphData(nodes, adjacency) == [nodes |-> nodes, adjacency |-> adjacency]

\* graph.nodes.has(id)
NodesHas(nodes, id) == \E i \in DOMAIN nodes : nodes[i].id = id

\* graph.nodes.get(id), for an id the map has
NodesGet(nodes, id) == nodes[CHOOSE i \in DOMAIN nodes : nodes[i].id = id]

\* graph.adjacency.get(uId) || []
Neighbors(g, uId) ==
    IF uId \in DOMAIN g.adjacency THEN g.adjacency[uId] ELSE <<>>

(***************************************************************************)
(* isochroneService.ts: calculateDijkstra                                  *)
(***************************************************************************)
\* the squared coordinate difference of the nearest-node scan
SqDist(node, lat, lng) ==
    (node.lat - lat) * (node.lat - lat) + (node.lon - lng) * (node.lon - lng)

\* graph.nodes.forEach(...): the first node of least SqDist (d < minDist is strict),
\* Null when the graph has no node
RECURSIVE NearestFrom(_, _, _, _, _, _)
NearestFrom(nodes, i, lat, lng, best, bestD) ==
    IF i > Len(nodes) THEN best
    ELSE LET d == SqDist(nodes[i], lat, lng)
         IN  IF best = Null \/ d < bestD
             THEN NearestFrom(nodes, i + 1, lat, lng, nodes[i].id, d)
             ELSE NearestFrom(nodes, i + 1, lat, lng, best, bestD)

NearestNode(nodes, lat, lng) == NearestFrom(nodes, 1, lat, lng, Null, 0)

\* the place of entry i of s after a stable ascending sort by d
RankIn(s, i) ==
    Cardinality({j \in DOMAIN s : s[j].d < s[i].d \/ (s[j].d = s[i].d /\ j <= i)})

\* a mutant: the queue is used in insertion order (the sort is missing)
SortPQUnsorted(s) == s

\* pq.sort((a, b) => a[0] - b[0]): ascending by d, stable
SortPQ(s) == [k \in DOMAIN s |-> s[CHOOSE i \in DOMAIN s : RankIn(s, i) = k]]

\* a mutant: the budget test is d >= maxTimeSeconds
OverBudgetInclusive(d, maxT) == d >= maxT

\* a mutant: the budget test is missing
OverBudgetNever(d, maxT) == FALSE

\* if (d > maxTimeSeconds) continue
OverBudget(d, maxT) == d > maxT

\* a mutant: a candidate equal to the recorded time is relaxed too
ShouldRelaxNonStrict(dist, vId, newDist) ==
    ~(vId \in DOMAIN dist) \/ newDist <= dist[vId]

\* a mutant: relaxation only of nodes never seen before
ShouldRelaxFirstOnly(dist, vId, newDist) == vId \notin DOMAIN dist

\* !distances.has(vId) || newDist < distances.get(vId)
ShouldRelax(dist, vId, newDist) ==
    vId \notin DOMAIN dist \/ newDist < dist[vId]

\* distances.set(vId, newDist)
MapSet(m, k, v) == [x \in DOMAIN m \cup {k} |-> IF x = k THEN v ELSE m[x]]

\* for (const edge of neighbors) { ... }: st is [distances, pq]
RECURSIVE RelaxFrom(_, _, _, _)
RelaxFrom(neighbors, i, d, st) ==
    IF i > Len(neighbors) THEN st
    ELSE LET vId == neighbors[i].target
             newDist == d + neighbors[i].weight
         IN  IF ShouldRelax(st.distances, vId, newDist)
             THEN RelaxFrom(neighbors, i + 1, d,
                            [distances |-> MapSet(st.distances, vId, newDist),
                             pq |-> Append(st.pq, [d |-> newDist, id |-> vId])])
             ELSE RelaxFrom(neighbors, i + 1, d, st)

\* the state of a search: the locals of calculateDijkstra
SearchState(q, dist, reach, times, n) ==
    [pq |-> q, distances |-> dist, reachableNodes |-> reach, popTimes |-> times, pops |-> n]

\* the locals before the loop; with no start node the function returns []
SearchStart(g, lat, lng) ==
    LET startNodeId == NearestNode(g.nodes, lat, lng)
    IN  IF startNodeId = Null
        THEN SearchState(<<>>, <<>>, <<>>, <<>>, 0)
        ELSE SearchState(<<[d |-> 0, id |-> startNodeId]>>,
                         MapSet(<<>>, startNodeId, 0), <<>>, <<>>, 0)

\* one iteration of while (pq.length > 0)
SearchStep(g, maxT, st) ==
    LET sorted == SortPQ(st.pq)
        d == Head(sorted).d
        uId == Head(sorted).id
        rest == Tail(sorted)
        uNode == NodesGet(g.nodes, uId)
        found == NodesHas(g.nodes, uId)
        relaxed == RelaxFrom(Neighbors(g, uId), 1, d,
                             [distances |-> st.distances, pq |-> rest])
    IN  IF OverBudget(d, maxT)
        THEN SearchState(rest, st.distances, st.reachableNodes, st.popTimes, st.pops + 1)
        ELSE SearchState(relaxed.pq, relaxed.distances,
                         IF found THEN Append(st.reachableNodes, uNode)
                                  ELSE st.reachableNodes,
                         IF found THEN Append(st.popTimes, d) ELSE st.popTimes,
                         st.pops + 1)

\* the whole loop
RECURSIVE SearchRun(_, _, _)
SearchRun(g, maxT, st) ==
    IF st.pq = <<>> THEN st ELSE SearchRun(g, maxT, SearchStep(g, maxT, st))

\* calculateDijkstra(graph, startLat, startLng, maxTimeSeconds)
calculateDijkstra(g, lat, lng, maxT) ==
    SearchRun(g, maxT, SearchStart(g, lat, lng)).reachableNodes


(***************************************************************************)
(* constants.ts, types.ts                                                  *)
(***************************************************************************)
WALKING == "walking"
CYCLING == "cycling"
DRIVING == "driving"

TransportMode == {WALKING, CYCLING, DRIVING}

\* TRANSPORT_SPEEDS, km/h
TRANSPORT_SPEEDS == [walking |-> 5, cycling |-> 15, driving |-> 40]

\* TIME_INTERVALS
TIME_INTERVALS == <<1, 5, 10, 15, 30, 45>>

(***************************************************************************)
(* overpassService.ts: getDistance and the graph builder of                *)
(* fetchRoadNetwork.  Coordinates are integers counting steps of 100 m on  *)
(* a local grid; a distance is a whole number of metres and a weight a     *)
(* whole number of seconds, both rounded down (the code computes both in   *)
(* floating point).                                                        *)
(***************************************************************************)
Abs(x) == IF x < 0 THEN 0 - x ELSE x

\* the integer square root of n, for n < (bound + 1)^2
ISqrt(n, bound) == CHOOSE r \in 0..bound : r * r <= n /\ n < (r + 1) * (r + 1)

\* getDistance(lat1, lon1, lat2, lon2), metres: 0 for coincident points, symmetric
getDistance(lat1, lon1, lat2, lon2) ==
    LET dLat == 100 * (lat2 - lat1)
        dLon == 100 * (lon2 - lon1)
    IN  ISqrt(dLat * dLat + dLon * dLon, Abs(dLat) + Abs(dLon))

\* dist / speedMS with speedMS = (TRANSPORT_SPEEDS[mode] * 1000) / 3600, seconds
TravelSeconds(dist, mode) == (dist * 3600) \div (TRANSPORT_SPEEDS[mode] * 1000)

\* a raw element of type node: id, lat, lon
PointElement(id, lat, lon) ==
    [type |-> "node", id |-> id, lat |-> lat, lon |-> lon, nodes |-> <<>>]

\* a raw element of type way: the ids of its nodes, in order (a way without a nodes
\* field is the way of no nodes; its own id and coordinates are not read)
WayElement(ids) == [type |-> "way", id |-> 0, lat |-> 0, lon |-> 0, nodes |-> ids]

\* nodes.set(id, node): a key the Map has keeps its place and gets the new value
NodesSet(nodes, node) ==
    IF NodesHas(nodes, node.id)
    THEN [i \in DOMAIN nodes |-> IF nodes[i].id = node.id THEN node ELSE nodes[i]]
    ELSE Append(nodes, node)

\* first pass: data.elements.forEach(el => if (el.type === 'node') nodes.set(...))
RECURSIVE ParseNodes(_, _, _)
ParseNodes(els, i, nodes) ==
    IF i > Len(els) THEN nodes
    ELSE IF els[i].type = "node"
    THEN ParseNodes(els, i + 1,
                    NodesSet(nodes, Node(ToString(els[i].id), els[i].lat, els[i].lon)))
    ELSE ParseNodes(els, i + 1, nodes)

\* if (!adjacency.has(id)) adjacency.set(id, [])
AdjacencyEnsure(adj, id) == IF id \in DOMAIN adj THEN adj ELSE MapSet(adj, id, <<>>)

\* adjacency.get(id)!.push(edge)
AdjacencyPush(adj, id, edge) == [adj EXCEPT ![id] = Append(@, edge)]

\* a mutant: only the edge u -> v is added
AddPairOneWay(adj, uId, vId, weight) ==
    AdjacencyPush(AdjacencyEnsure(AdjacencyEnsure(adj, uId), vId),
                  uId, Edge(uId, vId, weight))

\* the body of if (u && v): both directions, the same weight
AddPair(adj, uId, vId, weight) ==
    AdjacencyPush(
        AdjacencyPush(AdjacencyEnsure(AdjacencyEnsure(adj, uId), vId),
                      uId, Edge(uId, vId, weight)),
        vId, Edge(vId, uId, weight))

\* a mutant: a pair is resolved when its first id is
PairResolvedFirstOnly(nodes, uId, vId) == NodesHas(nodes, uId)

\* u && v
PairResolved(nodes, uId, vId) == NodesHas(nodes, uId) /\ NodesHas(nodes, vId)

\* for (let i = 0; i < el.nodes.length - 1; i++) { ... } over one way
RECURSIVE ParseWay(_, _, _, _, _)
ParseWay(way, i, nodes, mode, adj) ==
    IF i > Len(way) - 1 THEN adj
    ELSE LET uId == ToString(way[i])
             vId == ToString(way[i + 1])
         IN  IF PairResolved(nodes, uId, vId)
             THEN LET u == NodesGet(nodes, uId)
                      v == NodesGet(nodes, vId)
                      dist == getDistance(u.lat, u.lon, v.lat, v.lon)
                  IN  ParseWay(way, i + 1, nodes, mode,
                               AddPair(adj, uId, vId, TravelSeconds(dist, mode)))
             ELSE ParseWay(way, i + 1, nodes, mode, adj)

\* second pass: data.elements.forEach(el => if (el.type === 'way' && el.nodes) ...)
RECURSIVE ParseWays(_, _, _, _, _)
ParseWays(els, i, nodes, mode, adj) ==
    IF i > Len(els) THEN adj
    ELSE IF els[i].type = "way"
    THEN ParseWays(els, i + 1, nodes, mode, ParseWay(els[i].nodes, 1, nodes, mode, adj))
    ELSE ParseWays(els, i + 1, nodes, mode, adj)

\* fetchRoadNetwork from "const nodes = new Map" to "return { nodes, adjacency }"
BuildGraph(els, mode) ==
    LET nodes == ParseNodes(els, 1, <<>>)
    IN  GraphData(nodes, ParseWays(els, 1, nodes, mode, <<>>))


(***************************************************************************)
(* isochroneService.ts: generateHull.  turf.concave and turf.convex are    *)
(* library calls: each is a choice among the outcomes the library can      *)
(* have on the given points.  A polygon needs 3 distinct points; a convex  *)
(* hull exists for 3 points not on one line.                               *)
(***************************************************************************)
\* nodes.map(n => [n.lon, n.lat])
PointsOf(nodes) == [i \in DOMAIN nodes |-> <<nodes[i].lon, nodes[i].lat>>]

DistinctPoints(nodes) == Range(PointsOf(nodes))

Collinear(a, b, c) ==
    (b[1] - a[1]) * (c[2] - a[2]) = (b[2] - a[2]) * (c[1] - a[1])

\* some three of the points are not on one line
HasArea(points) == \E a, b, c \in points : ~Collinear(a, b, c)

Polygon(algorithm, points) ==
    [type |-> "Polygon", algorithm |-> algorithm, points |-> points]

\* turf.concave(featureCollection, { maxEdge: 0.1 }): a polygon, null (no triangle
\* with edges within maxEdge), or an exception
ConcaveOutcomes(points) ==
    IF HasArea(points) THEN {"polygon", "null", "throw"} ELSE {"null", "throw"}

\* turf.convex(featureCollection): a polygon, or null for a degenerate point set
ConvexOutcomes(points) ==
    IF HasArea(points) THEN {"polygon"}
    ELSE IF Cardinality(points) >= 3 THEN {"polygon", "null"}
    ELSE {"null"}

\* a run of generateHull: the outcome of each library call ("none": not called),
\* the value returned; thrown: an exception left generateHull
HullRun(concave, convex, result) ==
    [concave |-> concave, convex |-> convex, result |-> result, thrown |-> FALSE]

NoPolygon == Polygon("none", {})

\* a mutant: the guard counts distinct points
TooFewDistinct(nodes) == Cardinality(DistinctPoints(nodes)) < 3

\* a mutant: the guard is nodes.length < 2
TooFewBelowTwo(nodes) == Len(nodes) < 2

\* nodes.length < 3
TooFew(nodes) == Len(nodes) < 3

\* the value of turf.convex(featureCollection) on outcome x
ConvexResult(x, points) ==
    IF x = "polygon" THEN Polygon("convex", points) ELSE NoPolygon

\* turf.concave returned null: return turf.convex(featureCollection)
ConvexAfterNull(points) ==
    {HullRun("null", x, ConvexResult(x, points)) : x \in ConvexOutcomes(points)}

\* a mutant: the catch block throws the exception of turf.concave again
CatchBlockRethrows(points) ==
    {[HullRun("throw", "none", NoPolygon) EXCEPT !.thrown = TRUE]}

\* turf.concave threw: catch (e) { return turf.convex(featureCollection) }
CatchBlock(points) ==
    {HullRun("throw", x, ConvexResult(x, points)) : x \in ConvexOutcomes(points)}

\* generateHull(nodes, maxTimeSeconds): the runs it can take; result is a Polygon, or
\* NoPolygon for null
generateHull(nodes) ==
    IF TooFew(nodes) THEN {HullRun("none", "none", NoPolygon)}
    ELSE LET points == DistinctPoints(nodes)
         IN  {HullRun("polygon", "none", Polygon("concave", points)) :
                  c \in ConcaveOutcomes(points) \cap {"polygon"}}
             \cup
             UNION {ConvexAfterNull(points) :
                       c \in ConcaveOutcomes(points) \cap {"null"}}
             \cup
             UNION {CatchBlock(points) :
                       c \in ConcaveOutcomes(points) \cap {"throw"}}

IsNull(polygon) == polygon = NoPolygon


(***************************************************************************)
(* App.tsx                                                                 *)
(***************************************************************************)
\* DEFAULT_CENTER, on the grid
DEFAULT_CENTER == <<0 - 6, 106>>

IsochroneParams(lat, lng, mode, minutes) ==
    [lat |-> lat, lng |-> lng, mode |-> mode, minutes |-> minutes]

\* an IsochroneResult; by is history: the call that produced it, 0 for an upload
IsochroneResult(polygon, p, by) == [polygon |-> polygon, params |-> p, by |-> by]

\* an invocation of calculateIsochrone
\*   pc        "unused", "returned" (left at the guard), "fetching", "finished"
\*   params    activeParams
\*   fetches   number of calls of fetch()
\*   fetch     "none", "pending", "ok", "rejected", "notOk"
\*   response  data.elements of an ok fetch
\*   built, searched, hullRan   the stages that ran
\*   graphNodes  graph.nodes.size;  reached  the result of calculateDijkstra
\*   hull      the run of generateHull
\*   caught    the catch block ran;  alert  the alert shown
\*   ai        generateAiPlanningContext: "none", "pending", "resolved", "rejected"
NoCall ==
    [pc |-> "unused", params |-> IsochroneParams(0, 0, WALKING, 0), fetches |-> 0,
     fetch |-> "none", response |-> <<>>, built |-> FALSE, searched |-> FALSE,
     hullRan |-> FALSE, graphNodes |-> 0, reached |-> <<>>,
     hull |-> HullRun("none", "none", NoPolygon), caught |-> FALSE, alert |-> "none",
     ai |-> "none"]

\* a mutant: the guard returns only when both coordinates are missing
NoCoordinatesBoth(p) == p.lat = 0 /\ p.lng = 0

\* !activeParams.lat || !activeParams.lng
NoCoordinates(p) == p.lat = 0 \/ p.lng = 0

\* a mutant: the result holds the polygon whether or not there is one
HistoryWithAlways(h, polygon, p, by) == <<IsochroneResult(polygon, p, by)>> \o h

\* a mutant: setHistory([result]), the results of the other requests are lost
HistoryWithOnly(h, polygon, p, by) ==
    IF IsNull(polygon) THEN h ELSE <<IsochroneResult(polygon, p, by)>>

\* if (hull) setHistory(prev => [result, ...prev]), result = { polygon: hull,
\* params: { ...activeParams } }
HistoryWith(h, polygon, p, by) ==
    IF IsNull(polygon) THEN h ELSE <<IsochroneResult(polygon, p, by)>> \o h

\* h.filter((_, i) => i !== idx), idx counted from 1
RemoveAt(h, idx) ==
    [i \in 1..(Len(h) - 1) |-> IF i < idx THEN h[i] ELSE h[i + 1]]

(***************************************************************************)
(* The graphs and arguments of the enumerated searches.                    *)
(***************************************************************************)
\* node i of ids sits at latitude i, longitude 0
NodesOf(ids) == [i \in DOMAIN ids |-> Node(ids[i], i - 1, 0)]

\* the adjacency of a weight table w over ids: w[<<a, b>>] is a weight or NoEdge (no
\* edge); the edges of a node are listed in the order of ids
RECURSIVE EdgesFrom(_, _, _, _)
EdgesFrom(ids, w, a, j) ==
    IF j > Len(ids) THEN <<>>
    ELSE (IF ids[j] # a /\ w[<<a, ids[j]>>] # NoEdge
          THEN <<Edge(a, ids[j], w[<<a, ids[j]>>])>> ELSE <<>>)
         \o EdgesFrom(ids, w, a, j + 1)

AdjacencyOf(ids, w) == [a \in Range(ids) |-> EdgesFrom(ids, w, a, 1)]

\* the ordered pairs of distinct ids
Pairs(ids) == {p \in Range(ids) \X Range(ids) : p[1] # p[2]}

\* every directed graph over GenIds with weights in 0..MaxWeight
GenGraphs ==
    {GraphData(NodesOf(GenIds), AdjacencyOf(GenIds, w)) :
        w \in [Pairs(GenIds) -> (0..MaxWeight) \cup {NoEdge}]}

\* the line graph over LineIds whose consecutive nodes are joined, both ways, by
\* edges of weight wt
LineWeights(wt) ==
    [p \in Pairs(LineIds) |->
        IF \E i \in 1..(Len(LineIds) - 1) :
              \/ p = <<LineIds[i], LineIds[i + 1]>>
              \/ p = <<LineIds[i + 1], LineIds[i]>>
        THEN wt ELSE NoEdge]

LineGraph(wt) == GraphData(NodesOf(LineIds), AdjacencyOf(LineIds, LineWeights(wt)))

\* the graph without nodes
EmptyGraph == GraphData(<<>>, <<>>)

DijkstraIdle ==
    /\ graph = EmptyGraph
    /\ startLat = 0
    /\ startLng = 0
    /\ maxTimeSeconds = 0
    /\ pq = <<>>
    /\ distances = <<>>
    /\ reachableNodes = <<>>
    /\ popTimes = <<>>
    /\ pops = 0
    /\ dpc = "done"

BuildIdle ==
    /\ elements = <<>>
    /\ buildMode = WALKING
    /\ built = EmptyGraph
    /\ bpc = "built"

HullIdle ==
    /\ hullInput = <<>>
    /\ hullRun = HullRun("none", "none", NoPolygon)
    /\ hpc = "done"

\* the state of App after the first render
AppStart ==
    /\ params = IsochroneParams(DEFAULT_CENTER[1], DEFAULT_CENTER[2], WALKING, 15)
    /\ activePoi = <<>>
    /\ isLoading = FALSE
    /\ history = <<>>
    /\ showAiAnalysis = FALSE
    /\ aiAnalysisContent = 0
    /\ calls = <<>>

DijkstraInit ==
    /\ \/ /\ graph \in GenGraphs \cup {EmptyGraph}
          /\ maxTimeSeconds \in 0..MaxBudget
          /\ startLat \in {0, Len(GenIds) - 1}
       \/ /\ graph \in {LineGraph(wt) : wt \in (1..MaxWeight) \cup {300}}
          /\ maxTimeSeconds \in (0..MaxBudget) \cup {900}
          /\ startLat \in {0, Len(LineIds) - 1}
    /\ startLng = 0
    /\ BuildIdle
    /\ HullIdle
    /\ AppStart
    /\ LET st == SearchStart(graph, startLat, startLng)
       IN  /\ pq = st.pq
           /\ distances = st.distances
           /\ reachableNodes = st.reachableNodes
           /\ popTimes = st.popTimes
           /\ pops = st.pops
           /\ dpc = IF NearestNode(graph.nodes, startLat, startLng) = Null
                    THEN "done" ELSE "loop"

\* one iteration of the loop of calculateDijkstra; the count of iterations is kept
\* below MaxPops
DijkstraStep ==
    /\ dpc = "loop"
    /\ pq # <<>>
    /\ pops < MaxPops
    /\ LET st == SearchStep(graph, maxTimeSeconds,
                            SearchState(pq, distances, reachableNodes, popTimes, pops))
       IN  /\ pq' = st.pq
           /\ distances' = st.distances
           /\ reachableNodes' = st.reachableNodes
           /\ popTimes' = st.popTimes
           /\ pops' = st.pops
    /\ UNCHANGED <<graph, startLat, startLng, maxTimeSeconds, dpc, bvars, hvars, avars>>

\* the loop ends on an empty queue: return reachableNodes
DijkstraReturn ==
    /\ dpc = "loop"
    /\ pq = <<>>
    /\ dpc' = "done"
    /\ UNCHANGED <<graph, startLat, startLng, maxTimeSeconds, pq, distances,
                   reachableNodes, popTimes, pops, bvars, hvars,
                   avars>>

DijkstraNext == DijkstraStep \/ DijkstraReturn

SpecDijkstra == DijkstraInit /\ [][DijkstraNext]_vars

\* the searches followed to their end: every directed graph on GenIds with edge
\* weights below MaxWeight, from n0, with the largest and the smallest budget
DijkstraLiveInit ==
    /\ DijkstraInit
    /\ Len(graph.nodes) = Len(GenIds)
    /\ startLat = 0
    /\ maxTimeSeconds \in {0, MaxBudget}
    /\ \A a \in DOMAIN graph.adjacency :
          \A k \in DOMAIN graph.adjacency[a] : graph.adjacency[a][k].weight < MaxWeight

\* the loop is a running program: an iteration that can be taken is taken
SpecDijkstraLive ==
    DijkstraLiveInit /\ [][DijkstraNext]_vars /\ WF_vars(DijkstraNext)

(***************************************************************************)
(* Reference: true shortest travel times, by Bellman-Ford over all edges.  *)
(***************************************************************************)
AllEdges(g) == UNION {Range(g.adjacency[a]) : a \in DOMAIN g.adjacency}

NodeIdsOf(g) == {g.nodes[i].id : i \in DOMAIN g.nodes}

RECURSIVE SumWeights(_)
SumWeights(es) ==
    IF es = {} THEN 0
    ELSE LET e == CHOOSE x \in es : TRUE IN e.weight + SumWeights(es \ {e})

\* larger than the length of every simple path of g
Unreachable(g) == SumWeights(AllEdges(g)) + 1

RECURSIVE MinOf(_)
MinOf(S) ==
    LET x == CHOOSE y \in S : TRUE
    IN  IF S = {x} THEN x ELSE Min(x, MinOf(S \ {x}))

RECURSIVE BellmanFord(_, _, _, _)
BellmanFord(edges, inf, dist, k) ==
    IF k = 0 THEN dist
    ELSE BellmanFord(edges, inf,
            [v \in DOMAIN dist |->
                MinOf({dist[v]} \cup
                      {Min(dist[e.source] + e.weight, inf) :
                          e \in {x \in edges : x.target = v}})],
            k - 1)

\* the shortest travel time from src to every node of g (Unreachable(g): no path)
ShortestTimes(g, src) ==
    LET inf == Unreachable(g)
    IN  BellmanFord(AllEdges(g), inf,
                    [v \in NodeIdsOf(g) |-> IF v = src THEN 0 ELSE inf],
                    Len(g.nodes))

\* v has a path from the source and its shortest travel time is within maxT
WithinBudget(g, shortest, v, maxT) ==
    shortest[v] < Unreachable(g) /\ shortest[v] <= maxT

startNode == NearestNode(graph.nodes, startLat, startLng)

\* the ids of reachableNodes, in order
ReachableIds == [i \in DOMAIN reachableNodes |-> reachableNodes[i].id]

\* entry i of reachableNodes is the first with its id
FirstEmission(i) == \A j \in 1..(i - 1) : ReachableIds[j] # ReachableIds[i]

Returned == dpc = "done"

(***************************************************************************)
(* C1: calculateDijkstra never finalizes a node twice: reachableNodes      *)
(* holds no node twice and the queue is popped at most once per node.      *)
(***************************************************************************)
C1_NeverFinalizesTwice ==
    /\ \A i, j \in DOMAIN reachableNodes :
          reachableNodes[i].id = reachableNodes[j].id => i = j
    /\ pops <= Len(graph.nodes)

(***************************************************************************)
(* C2: every node of the result was taken from the queue with a cumulative *)
(* time <= maxTimeSeconds: no node is in the result with a cumulative time  *)
(* over maxTimeSeconds.                                                    *)
(***************************************************************************)
C2_ResultWithinBudget ==
    /\ Len(popTimes) = Len(reachableNodes)
    /\ \A i \in DOMAIN reachableNodes : popTimes[i] <= maxTimeSeconds

\* a search has returned that emitted a node exactly on the budget and skipped a
\* popped entry that was over it
C2_Witness ==
    /\ Returned
    /\ \E i \in DOMAIN popTimes : popTimes[i] = maxTimeSeconds /\ maxTimeSeconds > 0
    /\ pops > Len(reachableNodes)

(***************************************************************************)
(* C3: the returned nodes are exactly the nodes whose shortest travel time *)
(* from the start node is <= maxTimeSeconds, and a node is first emitted   *)
(* with its shortest travel time.                                          *)
(***************************************************************************)
C3_ExactlyTheReachable ==
    reachableNodes # <<>> =>
        LET shortest == ShortestTimes(graph, startNode)
        IN  /\ Returned =>
                  Range(ReachableIds) =
                     {v \in NodeIdsOf(graph) :
                         WithinBudget(graph, shortest, v, maxTimeSeconds)}
            /\ \A i \in DOMAIN reachableNodes :
                  FirstEmission(i) => popTimes[i] = shortest[ReachableIds[i]]

\* a search has returned in which a node was pushed again with a shorter time: it is
\* in the result twice, first with the shorter time
C3_Witness ==
    /\ Returned
    /\ \E i, j \in DOMAIN reachableNodes :
          /\ j < i
          /\ ReachableIds[j] = ReachableIds[i]
          /\ popTimes[j] < popTimes[i]
          /\ popTimes[i] <= maxTimeSeconds

(***************************************************************************)
(* C4: a candidate distance over maxTimeSeconds is never pushed onto the   *)
(* queue nor written into distances.                                       *)
(***************************************************************************)
C4_NoOverBudgetCandidate ==
    /\ \A i \in DOMAIN pq : pq[i].d <= maxTimeSeconds
    /\ \A v \in DOMAIN distances : distances[v] <= maxTimeSeconds

(***************************************************************************)
(* C5: Scenario A, the line n0-n1-n2-n3-n4 with edges of 300 s, origin at  *)
(* n0, budget 900 s.                                                       *)
(***************************************************************************)
ScenarioA ==
    /\ graph = LineGraph(300)
    /\ maxTimeSeconds = 900
    /\ startNode = "n0"

\* as claimed: the first 3 nodes are returned and the last node is not
C5_ScenarioAFirstThree ==
    ScenarioA /\ Returned => ReachableIds = <<"n0", "n1", "n2">>

\* as amended: the first 4 nodes are returned (n3, at 900 s, is within the budget)
\* and the last node is not
C5_ScenarioAFirstFour ==
    ScenarioA /\ Returned => ReachableIds = <<"n0", "n1", "n2", "n3">>

C5_Witness == ScenarioA /\ Returned /\ Len(reachableNodes) = 4

(***************************************************************************)
(* The element lists of the enumerated builds.                             *)
(***************************************************************************)
\* points 1, 2, 3, and a second element for id 1 at other coordinates
SomePoints ==
    {PointElement(1, 0, 0), PointElement(2, 0, 2), PointElement(3, 1, 1),
     PointElement(1, 2, 2)}

\* every way of two ids among 1, 2, 3, and two ways of three
SomeWays ==
    {WayElement(<<a, b>>) : a, b \in {1, 2, 3}}
        \cup {WayElement(<<1, 2, 3>>), WayElement(<<2, 1, 2>>)}

RECURSIVE SeqsUpTo(_, _)
SeqsUpTo(S, n) ==
    IF n = 0 THEN {<<>>}
    ELSE LET shorter == SeqsUpTo(S, n - 1)
         IN  shorter \cup {Append(q, x) : q \in {r \in shorter : Len(r) = n - 1}, x \in S}

BuildInit ==
    /\ elements \in SeqsUpTo(SomePoints \cup SomeWays, MaxElements)
    /\ buildMode \in TransportMode
    /\ built = EmptyGraph
    /\ bpc = "parse"
    /\ DijkstraIdle
    /\ HullIdle
    /\ AppStart

\* the response is parsed and the graph returned
Build ==
    /\ bpc = "parse"
    /\ built' = BuildGraph(elements, buildMode)
    /\ bpc' = "built"
    /\ UNCHANGED <<elements, buildMode, dvars, hvars, avars>>

BuildNext == Build

SpecBuild == BuildInit /\ [][BuildNext]_vars


(***************************************************************************)
(* The App: the user's actions, the fetch of the road network, the AI      *)
(* call.  A continuation after an await is one action: JavaScript runs it  *)
(* to completion.                                                          *)
(***************************************************************************)
\* the places of the map the user clicks: <<lat, lng>>
ClickPoints == {<<1, 1>>, <<0, 1>>}

\* the time buttons the user presses
Minutes == {TIME_INTERVALS[1], TIME_INTERVALS[4]}

\* the mode buttons the user presses
Modes == {WALKING, DRIVING}

\* four points of a square joined by one way around it
SquareElements ==
    <<PointElement(1, 1, 1), PointElement(2, 1, 2), PointElement(3, 2, 2),
      PointElement(4, 2, 1), WayElement(<<1, 2, 3, 4, 1>>)>>

\* the element lists the provider answers with
Responses == {<<>>, SquareElements}

AppInit ==
    /\ AppStart
    /\ DijkstraIdle
    /\ BuildIdle
    /\ HullIdle

\* handleMapClick(lat, lng)
HandleMapClick(pt) ==
    /\ activePoi' = pt
    /\ params' = [params EXCEPT !.lat = pt[1], !.lng = pt[2]]
    /\ UNCHANGED <<isLoading, history, showAiAnalysis, aiAnalysisContent, calls, dvars, bvars, hvars>>

\* a mutant: the stored results hold the params object of the state and setMode
\* writes the mode into that object
SetModeInPlace(mode) ==
    /\ params.mode # mode
    /\ params' = [params EXCEPT !.mode = mode]
    /\ history' = [i \in DOMAIN history |->
                      [history[i] EXCEPT !.params = [@ EXCEPT !.mode = mode]]]
    /\ UNCHANGED <<activePoi, isLoading, showAiAnalysis, aiAnalysisContent,
                   calls, dvars, bvars, hvars>>

\* Sidebar: setMode(mode), setParams(prev => ({ ...prev, mode })): a new params object
SetMode(mode) ==
    /\ params.mode # mode
    /\ params' = [params EXCEPT !.mode = mode]
    /\ UNCHANGED <<activePoi, isLoading, history, showAiAnalysis, aiAnalysisContent,
                   calls, dvars, bvars, hvars>>

\* Sidebar: setMinutes(minutes)
SetMinutes(minutes) ==
    /\ params.minutes # minutes
    /\ params' = [params EXCEPT !.minutes = minutes]
    /\ UNCHANGED <<activePoi, isLoading, history, showAiAnalysis, aiAnalysisContent,
                   calls, dvars, bvars, hvars>>

\* calculateIsochrone up to its await: the guard, setIsLoading(true), the fetch sent
CalculateIsochrone(p) ==
    /\ Len(calls) < MaxCalls
    /\ IF NoCoordinates(p)
       THEN /\ calls' = Append(calls, [NoCall EXCEPT !.pc = "returned", !.params = p])
            /\ UNCHANGED isLoading
       ELSE /\ calls' = Append(calls, [NoCall EXCEPT !.pc = "fetching", !.params = p,
                                                     !.fetches = 1, !.fetch = "pending"])
            /\ isLoading' = TRUE
    /\ UNCHANGED <<params, activePoi, history, showAiAnalysis, aiAnalysisContent, dvars, bvars, hvars>>

\* Sidebar: the Start Analysis button, disabled={!isPoiSelected || isLoading}
StartAnalysis ==
    /\ activePoi # <<>>
    /\ ~isLoading
    /\ CalculateIsochrone(params)

\* Popup of the marker: the Start Full Analysis button, disabled={isLoading}
StartFullAnalysis ==
    /\ activePoi # <<>>
    /\ ~isLoading
    /\ CalculateIsochrone(params)

\* Popup of the marker: a Quick Analysis button
QuickAnalysis(t) ==
    /\ activePoi # <<>>
    /\ CalculateIsochrone([params EXCEPT !.minutes = t])

\* a mutant: a failed fetch is sent a second time before the failure is reported
FetchFailRetry(c, kind) ==
    /\ calls[c].pc = "fetching"
    /\ calls' = [calls EXCEPT ![c] = [@ EXCEPT !.pc = "finished", !.fetch = kind,
                                               !.fetches = @ + 1,
                                               !.caught = TRUE, !.alert = "failed"]]
    /\ isLoading' = FALSE
    /\ UNCHANGED <<params, activePoi, isLoading, history, showAiAnalysis,
                   aiAnalysisContent, dvars, bvars, hvars>>

\* the fetch of call c rejects ("rejected") or answers with a status that is not ok
\* ("notOk", the throw of fetchRoadNetwork): catch, finally
FetchFail(c, kind) ==
    /\ calls[c].pc = "fetching"
    /\ calls' = [calls EXCEPT ![c] = [@ EXCEPT !.pc = "finished", !.fetch = kind,
                                               !.caught = TRUE, !.alert = "failed"]]
    /\ isLoading' = FALSE
    /\ UNCHANGED <<params, activePoi, history, showAiAnalysis, aiAnalysisContent, dvars, bvars, hvars>>

\* the fetch of call c answers with els: the graph is built, the search and the hull
\* run, the result is stored and the AI call started, finally
FetchResolve(c, els) ==
    /\ calls[c].pc = "fetching"
    /\ LET p == calls[c].params
           g == BuildGraph(els, p.mode)
           nodes == calculateDijkstra(g, p.lat, p.lng, p.minutes * 60)
       IN  \E run \in generateHull(nodes) :
              /\ history' = HistoryWith(history, run.result, p, c)
              /\ calls' = [calls EXCEPT ![c] =
                              [@ EXCEPT !.pc = "finished", !.fetch = "ok",
                                        !.response = els, !.built = TRUE,
                                        !.searched = TRUE, !.hullRan = TRUE,
                                        !.graphNodes = Len(g.nodes), !.reached = nodes,
                                        !.hull = run,
                                        !.alert = IF IsNull(run.result) THEN "sparse"
                                                                        ELSE "none",
                                        !.ai = IF IsNull(run.result) THEN "none"
                                                                     ELSE "pending"]]
    /\ isLoading' = FALSE
    /\ UNCHANGED <<params, activePoi, showAiAnalysis, aiAnalysisContent, dvars, bvars, hvars>>

\* generateAiPlanningContext of call c: generateContent resolves
AiResolve(c) ==
    /\ calls[c].ai = "pending"
    /\ calls' = [calls EXCEPT ![c] = [@ EXCEPT !.ai = "resolved"]]
    /\ aiAnalysisContent' = c
    /\ showAiAnalysis' = TRUE
    /\ UNCHANGED <<params, activePoi, isLoading, history, dvars, bvars, hvars>>

\* a mutant: the rejection reaches the catch block of calculateIsochrone
AiRejectPropagates(c) ==
    /\ calls[c].ai = "pending"
    /\ calls' = [calls EXCEPT ![c] = [@ EXCEPT !.ai = "rejected", !.caught = TRUE,
                                               !.alert = "failed"]]
    /\ UNCHANGED <<params, activePoi, isLoading, history, showAiAnalysis,
                   aiAnalysisContent, dvars, bvars, hvars>>

\* generateAiPlanningContext of call c: generateContent rejects; its own catch logs
AiReject(c) ==
    /\ calls[c].ai = "pending"
    /\ calls' = [calls EXCEPT ![c] = [@ EXCEPT !.ai = "rejected"]]
    /\ UNCHANGED <<params, activePoi, isLoading, history, showAiAnalysis,
                   aiAnalysisContent, dvars, bvars, hvars>>

\* onRemoveItem(idx)
RemoveItem(idx) ==
    /\ idx \in DOMAIN history
    /\ history' = RemoveAt(history, idx)
    /\ UNCHANGED <<params, activePoi, isLoading, showAiAnalysis, aiAnalysisContent,
                   calls, dvars, bvars, hvars>>

\* onClearAll
ClearAll ==
    /\ history # <<>>
    /\ history' = <<>>
    /\ UNCHANGED <<params, activePoi, isLoading, showAiAnalysis, aiAnalysisContent,
                   calls, dvars, bvars, hvars>>

AppNext ==
    \/ \E pt \in ClickPoints : HandleMapClick(pt)
    \/ \E mode \in Modes : SetMode(mode)
    \/ \E t \in Minutes : SetMinutes(t)
    \/ StartAnalysis
    \/ StartFullAnalysis
    \/ \E t \in Minutes : QuickAnalysis(t)
    \/ \E c \in DOMAIN calls, kind \in {"rejected", "notOk"} : FetchFail(c, kind)
    \/ \E c \in DOMAIN calls, els \in Responses : FetchResolve(c, els)
    \/ \E c \in DOMAIN calls : AiResolve(c)
    \/ \E c \in DOMAIN calls : AiReject(c)
    \/ \E idx \in DOMAIN history : RemoveItem(idx)
    \/ ClearAll

SpecApp == AppInit /\ [][AppNext]_vars

(***************************************************************************)
(* C7: the graph built from any element list holds, for each consecutive   *)
(* pair (u, v) of a way whose ids both resolve to point elements, an edge  *)
(* u -> v and an edge v -> u of the same weight; every edge joins ids of   *)
(* nodes; adjacency is symmetric; a pair with an unresolved id adds no     *)
(* edge.                                                                   *)
(***************************************************************************)
\* id is the id of a point element of the list
Resolves(els, id) == \E i \in DOMAIN els : els[i].type = "node" /\ els[i].id = id

\* the consecutive pairs <<way index, position>> of the ways of the list
WayPairs(els) ==
    UNION {{<<i, k>> : k \in 1..(Len(els[i].nodes) - 1)} :
              i \in {j \in DOMAIN els : els[j].type = "way"}}

ResolvedPairs(els) ==
    {p \in WayPairs(els) :
        /\ Resolves(els, els[p[1]].nodes[p[2]])
        /\ Resolves(els, els[p[1]].nodes[p[2] + 1])}

\* the edges of adjacency as <<key, index>>
EdgeSlots(g) ==
    UNION {{<<a, k>> : k \in DOMAIN g.adjacency[a]} : a \in DOMAIN g.adjacency}

EdgeAt(g, s) == g.adjacency[s[1]][s[2]]

C7_BuiltGraphSymmetric ==
    bpc = "built" =>
        /\ \A p \in ResolvedPairs(elements) :
              LET u == ToString(elements[p[1]].nodes[p[2]])
                  v == ToString(elements[p[1]].nodes[p[2] + 1])
              IN  /\ u \in DOMAIN built.adjacency
                  /\ v \in DOMAIN built.adjacency
                  /\ \E s, t \in EdgeSlots(built) :
                        /\ s[1] = u /\ EdgeAt(built, s).target = v
                        /\ t[1] = v /\ EdgeAt(built, t).target = u
                        /\ EdgeAt(built, s).weight = EdgeAt(built, t).weight
        /\ \A s \in EdgeSlots(built) :
              /\ EdgeAt(built, s).source = s[1]
              /\ NodesHas(built.nodes, EdgeAt(built, s).source)
              /\ NodesHas(built.nodes, EdgeAt(built, s).target)
              /\ EdgeAt(built, s).weight >= 0
              /\ \E t \in EdgeSlots(built) :
                    /\ t[1] = EdgeAt(built, s).target
                    /\ EdgeAt(built, t).target = s[1]
                    /\ EdgeAt(built, t).weight = EdgeAt(built, s).weight
        /\ Cardinality(EdgeSlots(built)) = 2 * Cardinality(ResolvedPairs(elements))

\* a graph was built from a list whose way comes before a point it names and has
\* both a resolved and an unresolved pair
C7_Witness ==
    /\ bpc = "built"
    /\ ResolvedPairs(elements) # {}
    /\ WayPairs(elements) \ ResolvedPairs(elements) # {}
    /\ \E i, j \in DOMAIN elements :
          /\ i < j
          /\ elements[i].type = "way"
          /\ elements[j].type = "node"
          /\ \E k \in DOMAIN elements[i].nodes : elements[i].nodes[k] = elements[j].id

(***************************************************************************)
(* The node lists of the enumerated hull computations.                     *)
(***************************************************************************)
\* three nodes of a triangle, a node at the coordinates of node 1, and a node on the
\* line of nodes 1 and 2
SomeNodes ==
    {Node("1", 0, 0), Node("2", 0, 1), Node("3", 1, 0), Node("4", 0, 0),
     Node("5", 0, 2)}

HullInit ==
    /\ hullInput \in SeqsUpTo(SomeNodes, MaxHullNodes)
    /\ hullRun = HullRun("none", "none", NoPolygon)
    /\ hpc = "call"
    /\ DijkstraIdle
    /\ BuildIdle
    /\ AppStart

\* generateHull(hullInput, _) runs and returns
GenerateHull ==
    /\ hpc = "call"
    /\ hullRun' \in generateHull(hullInput)
    /\ hpc' = "done"
    /\ UNCHANGED <<hullInput, dvars, bvars, avars>>

HullNext == GenerateHull

SpecHull == HullInit /\ [][HullNext]_vars

(***************************************************************************)
(* C6: generateHull returns null whenever its input holds fewer than 3     *)
(* distinct points, and no hull algorithm (turf.concave, turf.convex) is   *)
(* invoked on fewer than 3 distinct points.                                *)
(***************************************************************************)
C6_NullBelowThreeDistinct ==
    hpc = "done" /\ Cardinality(DistinctPoints(hullInput)) < 3 =>
        /\ IsNull(hullRun.result)
        /\ hullRun.concave = "none"
        /\ hullRun.convex = "none"

(***************************************************************************)
(* C8: a call whose fetch succeeds adds exactly one IsochroneResult to the *)
(* history when generateHull returns a polygon and nothing when it returns *)
(* null; on an empty element list the graph has no node, the search        *)
(* returns no node, the hull is null and the history is unchanged.         *)
(***************************************************************************)
\* the step in which the fetch of call c resolves
FetchResolves(c) ==
    calls[c].pc = "fetching" /\ calls'[c].pc = "finished" /\ calls'[c].fetch = "ok"

C8_OneResultPerPolygon ==
    [][\A c \in DOMAIN calls :
          FetchResolves(c) =>
             /\ ~IsNull(calls'[c].hull.result) =>
                   /\ Len(history') = Len(history) + 1
                   /\ history' = <<[polygon |-> calls'[c].hull.result,
                                    params |-> calls[c].params, by |-> c]>> \o history
             /\ IsNull(calls'[c].hull.result) => history' = history
             /\ calls'[c].response = <<>> =>
                   /\ calls'[c].graphNodes = 0
                   /\ calls'[c].reached = <<>>
                   /\ IsNull(calls'[c].hull.result)
                   /\ history' = history]_vars

\* one call got a polygon, which is in the history, and another call got the empty
\* element list
C8_Witness ==
    /\ \E c \in DOMAIN calls :
          /\ calls[c].fetch = "ok"
          /\ ~IsNull(calls[c].hull.result)
          /\ \E i \in DOMAIN history : history[i].by = c
    /\ \E c \in DOMAIN calls :
          /\ calls[c].fetch = "ok"
          /\ calls[c].response = <<>>
    /\ Len(history) = 1

(***************************************************************************)
(* C9: when the fetch rejects or answers with a status that is not ok, it  *)
(* was attempted once, no graph is built, neither the search nor the hull  *)
(* runs, the history is unchanged and the catch block reports the failure. *)
(***************************************************************************)
C9_FetchFailureSurfaced ==
    [][\A c \in DOMAIN calls :
          calls[c].pc = "fetching" /\ calls'[c].fetch \in {"rejected", "notOk"} =>
             /\ calls'[c].fetches = 1
             /\ ~calls'[c].built
             /\ ~calls'[c].searched
             /\ ~calls'[c].hullRan
             /\ history' = history
             /\ calls'[c].pc = "finished"
             /\ calls'[c].caught
             /\ calls'[c].alert = "failed"]_vars

\* a call failed on a status that is not ok while the history held a result
C9_Witness ==
    /\ history # <<>>
    /\ \E c \in DOMAIN calls : calls[c].pc = "finished" /\ calls[c].fetch = "notOk"

(***************************************************************************)
(* C10: a rejection of the AI call changes neither the history nor         *)
(* isLoading, does not run the catch block of calculateIsochrone, and      *)
(* comes after the finally block of its call has run.                      *)
(***************************************************************************)
C10_AiFailureHarmless ==
    [][\A c \in DOMAIN calls :
          calls[c].ai = "pending" /\ calls'[c].ai = "rejected" =>
             /\ history' = history
             /\ isLoading' = isLoading
             /\ calls[c].pc = "finished"
             /\ calls'[c] = [calls[c] EXCEPT !.ai = "rejected"]
             /\ ~calls'[c].caught
             /\ calls'[c].alert = "none"]_vars

\* the AI call of a call failed; the result of the call is in the history and
\* isLoading is false
C10_Witness ==
    /\ ~isLoading
    /\ \E c \in DOMAIN calls :
          /\ calls[c].ai = "rejected"
          /\ \E i \in DOMAIN history :
                /\ history[i].by = c
                /\ history[i].polygon = calls[c].hull.result
                /\ history[i].params = calls[c].params

(***************************************************************************)
(* C11: in generateHull with at least 3 input points, whenever             *)
(* turf.concave yields no result or throws, the function returns the       *)
(* convex hull of the same point set (what turf.convex gives on it), and   *)
(* the exception of turf.concave never leaves the function.                *)
(***************************************************************************)
C11_ConvexFallback ==
    hpc = "done" /\ Len(hullInput) >= 3 =>
        /\ ~hullRun.thrown
        /\ hullRun.concave # "none"
        /\ hullRun.concave \in {"null", "throw"} =>
              /\ hullRun.convex \in ConvexOutcomes(DistinctPoints(hullInput))
              /\ hullRun.convex = "polygon" =>
                    hullRun.result = Polygon("convex", DistinctPoints(hullInput))
              /\ hullRun.convex = "null" => IsNull(hullRun.result)
        /\ hullRun.concave = "polygon" => hullRun.convex = "none"

\* turf.concave threw on three points of a triangle and the convex hull of the
\* points was returned
C11_Witness ==
    /\ hpc = "done"
    /\ Len(hullInput) >= 3
    /\ hullRun.concave = "throw"
    /\ hullRun.convex = "polygon"
    /\ hullRun.result = Polygon("convex", DistinctPoints(hullInput))
    /\ ~hullRun.thrown

(***************************************************************************)
(* C12: the params stored in an IsochroneResult are a copy of the params   *)
(* its calculation was run with: once the result is in the history, no     *)
(* later step (a mode change, a minutes change, a map click, a further     *)
(* calculation, the removal of another result) changes its lat, lng, mode  *)
(* or minutes, and they equal the values the calculation was started with. *)
(***************************************************************************)
\* the params of the results of call c in history h
StoredParams(h, c) == {h[i].params : i \in {j \in DOMAIN h : h[j].by = c}}

C12_StoredParamsFrozen ==
    [][\A c \in DOMAIN calls :
          /\ calls'[c].params = calls[c].params
          /\ StoredParams(history, c) \subseteq {calls[c].params}
          /\ StoredParams(history', c) \subseteq {calls[c].params}]_vars

\* the result of the first call is in the history; since then the mode, the minutes
\* and the point have changed and a second calculation was started
C12_Witness ==
    /\ Len(calls) = 2
    /\ StoredParams(history, 1) = {calls[1].params}
    /\ calls[1].params.mode # params.mode
    /\ calls[1].params.minutes # params.minutes
    /\ calls[1].params.lat # params.lat
    /\ calls[2].params # calls[1].params

(***************************************************************************)
(* C13: requests that overlap in time run as independent pipelines: under  *)
(* every interleaving of their fetch completions, a request that yields a  *)
(* polygon adds exactly one entry to the history, with its own params and  *)
(* a polygon it can produce running alone (the hull of the search on the   *)
(* graph built from its own response with its own params); the step of a   *)
(* request changes no other request and removes, repeats or replaces no    *)
(* entry of the history.                                                   *)
(***************************************************************************)
\* the hulls call c can produce alone from its params and the elements els
AloneHulls(p, els) ==
    generateHull(calculateDijkstra(BuildGraph(els, p.mode), p.lat, p.lng,
                                   p.minutes * 60))

\* the number of results of call c in history h
ResultsOf(h, c) == Cardinality({i \in DOMAIN h : h[i].by = c})

C13_IndependentPipelines ==
    [][\A c \in DOMAIN calls :
          /\ ResultsOf(history, c) <= 1
          /\ calls[c].pc = "fetching" => ResultsOf(history, c) = 0
          /\ calls[c].pc = "fetching" /\ calls'[c].pc = "finished" =>
                /\ \A d \in DOMAIN calls \ {c} : calls'[d] = calls[d]
                /\ Len(calls') = Len(calls)
                /\ calls'[c].fetch = "ok" =>
                      /\ calls'[c].hull \in AloneHulls(calls[c].params,
                                                       calls'[c].response)
                      /\ IF IsNull(calls'[c].hull.result)
                         THEN history' = history
                         ELSE /\ Tail(history') = history
                              /\ Head(history') =
                                    IsochroneResult(calls'[c].hull.result,
                                                    calls[c].params, c)
                              /\ ResultsOf(history', c) = 1
                /\ calls'[c].fetch # "ok" => history' = history]_vars

\* two requests were in flight together: the second one finished first, then the
\* first one, and the history holds the result of each
C13_Witness ==
    /\ Len(calls) = 2
    /\ Len(history) = 2
    /\ history[1].by = 1
    /\ history[2].by = 2
    /\ history[1] = IsochroneResult(calls[1].hull.result, calls[1].params, 1)
    /\ history[2] = IsochroneResult(calls[2].hull.result, calls[2].params, 2)
    /\ calls[1].params # calls[2].params

(***************************************************************************)
(* C14: on every finite graph with non-negative edge weights, with cycles  *)
(* and zero-weight edges included, calculateDijkstra terminates: the       *)
(* priority queue eventually becomes empty and the function returns.       *)
(***************************************************************************)
C14_Terminates == <>(dpc = "done" /\ pq = <<>>)

\* the weight of the edge a -> b of the graph, NoEdge if there is none
WeightOf(g, a, b) ==
    IF \E e \in AllEdges(g) : e.source = a /\ e.target = b
    THEN (CHOOSE e \in AllEdges(g) : e.source = a /\ e.target = b).weight
    ELSE NoEdge

\* the search returned on a graph with a cycle of zero-weight edges through the
\* start node, after it had gone around a cycle of positive weight too
C14_Witness ==
    /\ dpc = "done"
    /\ pq = <<>>
    /\ Len(reachableNodes) = 3
    /\ \E a, b, c \in NodeIdsOf(graph) :
          /\ a = startNode /\ a # b /\ b # c /\ a # c
          /\ WeightOf(graph, a, b) = 0
          /\ WeightOf(graph, b, a) = 0
          /\ WeightOf(graph, b, c) > 0
          /\ WeightOf(graph, c, b) > 0

(***************************************************************************)
(* C15: isLoading is true in every state in which at least one call of     *)
(* calculateIsochrone is in flight (started, its finally block not yet     *)
(* run), under every interleaving of the calls started from Start          *)
(* Analysis, Start Full Analysis and the Quick Analysis buttons.           *)
(***************************************************************************)
\* call c is past setIsLoading(true) and before its finally block
InFlight(c) == calls[c].pc = "fetching"

C15_LoadingWhileInFlight ==
    (\E c \in DOMAIN calls : InFlight(c)) => isLoading

(***************************************************************************)
(* C16: calculateIsochrone runs the pipeline (fetch, search, hull) for     *)
(* the params of a selected point; the only params for which it returns    *)
(* without fetching, leaving isLoading and the history unchanged, are      *)
(* those whose latitude is 0 or whose longitude is 0, which are treated as *)
(* "no coordinates".                                                       *)
(***************************************************************************)
\* the step in which a call of calculateIsochrone starts
Starts(c) == Len(calls) = c - 1 /\ Len(calls') = c

C16_OnlyZeroCoordinatesSkipped ==
    [][\A c \in DOMAIN calls' :
          LET p == calls'[c].params
              zero == p.lat = 0 \/ p.lng = 0
          IN  /\ Starts(c) /\ zero =>
                    /\ calls'[c].pc = "returned"
                    /\ calls'[c].fetches = 0
                    /\ isLoading' = isLoading
                    /\ history' = history
              /\ Starts(c) /\ ~zero =>
                    /\ calls'[c].pc = "fetching"
                    /\ calls'[c].fetches = 1
                    /\ isLoading'
              /\ calls'[c].pc = "returned" <=> zero
              /\ calls'[c].pc = "returned" =>
                    calls'[c] = [NoCall EXCEPT !.pc = "returned", !.params = p]
              /\ calls'[c].fetch = "ok" =>
                    calls'[c].built /\ calls'[c].searched /\ calls'[c].hullRan]_vars

\* a call for the selected point (0, 1) returned at the guard, and a call for a
\* point with both coordinates ran the pipeline to the hull
C16_Witness ==
    /\ activePoi = <<0, 1>>
    /\ \E c \in DOMAIN calls :
          /\ calls[c].pc = "returned"
          /\ calls[c].params.lat = 0
          /\ calls[c].params.lng = 1
          /\ calls[c].fetches = 0
    /\ \E d \in DOMAIN calls :
          /\ calls[d].fetch = "ok"
          /\ calls[d].hullRan
          /\ calls[d].params.lat # 0
          /\ calls[d].params.lng # 0

====
